---- MODULE Spec2Model ----
(***************************************************************************)
(* Model of zasm's context-aware instruction encoder                       *)
(* (src/zasm/src/encoder/encoder.cpp): the operand builders, the           *)
(* relative-address resolver, encode_, and the re-encode loop of           *)
(* encodeWithContext, driven by a layout driver that places labels, moves  *)
(* the virtual address and resets needsExtraPass between passes.           *)
(***************************************************************************)
EXTENDS Integers, Sequences, FiniteSets

VARIABLES
    labels,       \* ProgramState::labels: id -> [addr: optional<i64>, external]
    ctx,          \* EncoderContext: [va, instrSize, needsExtraPass]
    ripDisp8,     \* byte-level encoder build: sizes a RIP displacement by value
    pc,           \* "idle", "loop", "done", "failed", "aborted"
    call,         \* inputs of the encode call in progress / last returned
    req,          \* ZydisEncoderRequest handed to the byte-level encoder last
    res,          \* EncoderResult of the last encode_ invocation
    entry,        \* ctx.instrSize and ctx.needsExtraPass when the call began
    reencodes,    \* inner re-encodes done by the call (saturating)
    tried         \* sizes the loop has already re-encoded with in this call

vars == <<labels, ctx, ripDisp8, pc, call, req, res, entry, reencodes, tried>>

----------------------------------------------------------------------------
\* Program constants.

kTemporaryRel32Value == 1193046
kTemporaryRel8Value == 68
kHintRequiresSize == -1
Int8Max == 127
Int32Max == 2147483647
ZYDIS_ENCODER_MAX_OPERANDS == 5

\* Saturation point of the re-encode counter.
MaxReencodes == 3

InvalidLabel == -1

\* std::optional<std::int64_t>
NullOpt == [has |-> FALSE, val |-> 0]
Some(v) == [has |-> TRUE, val |-> v]

\* std::abs(x) <= m, written without negating x.
AbsLeq(x, m) == x <= m /\ x >= -m

Min(a, b) == IF a < b THEN a ELSE b

----------------------------------------------------------------------------
\* Mnemonic variant table.

EncodeVariantsInfo(cf, r8, r32) ==
    [isControlFlow |-> cf, encodeSizeRel8 |-> r8, encodeSizeRel32 |-> r32]

JccMnemonics ==
    {"JB", "JBE", "JL", "JLE", "JNB", "JNBE", "JNL", "JNLE", "JNO", "JNP",
     "JNS", "JNZ", "JO", "JP", "JS", "JZ"}

ShortOnlyMnemonics ==
    {"JCXZ", "JECXZ", "JKNZD", "JKZD", "JRCXZ", "LOOP", "LOOPE", "LOOPNE"}

buildEncodeVariantTable(mnemonic) ==
    CASE mnemonic = "JMP" -> EncodeVariantsInfo(TRUE, 2, 5)
      [] mnemonic \in JccMnemonics -> EncodeVariantsInfo(TRUE, 2, 6)
      [] mnemonic \in ShortOnlyMnemonics -> EncodeVariantsInfo(TRUE, 2, -1)
      [] mnemonic = "CALL" -> EncodeVariantsInfo(TRUE, -1, 5)
      [] OTHER -> EncodeVariantsInfo(FALSE, -1, -1)

getEncodeVariantInfo(mnemonic) == buildEncodeVariantTable(mnemonic)

canEncodeRel8(info) == info.encodeSizeRel8 # -1

canEncodeRel32(info) == info.encodeSizeRel32 # -1

----------------------------------------------------------------------------
\* Program state lookups.

isLabelExternal(labelId) ==
    IF labelId \notin DOMAIN labels THEN FALSE ELSE labels[labelId].external

getLabelAddress(labelId) ==
    IF labelId \notin DOMAIN labels THEN NullOpt ELSE labels[labelId].addr

getRelativeAddress(address, target, instrSize) == target - (address + instrSize)

----------------------------------------------------------------------------
\* Relative-address resolver.  branch "NONE" is the state the assertion
\* at the end of processRelAddress rejects.

\* Mutant: the whole signed 8-bit range counts as short.
rel8InRange_int8(rel) == -128 <= rel /\ rel <= 127

\* std::abs(rel) <= std::numeric_limits<std::int8_t>::max()
rel8InRange(rel) == AbsLeq(rel, Int8Max)

\* std::abs(rel) <= std::numeric_limits<std::int32_t>::max()
rel32InRange(rel) == AbsLeq(rel, Int32Max)

processRelAddress(info, hasCtx, va, targetAddress) ==
    IF ~hasCtx
    THEN [rel |-> kTemporaryRel32Value, branch |-> "NEAR"]
    ELSE LET rel8 == getRelativeAddress(va, targetAddress, info.encodeSizeRel8)
             rel32 == getRelativeAddress(va, targetAddress, info.encodeSizeRel32)
         IN  IF canEncodeRel8(info) /\ rel8InRange(rel8)
             THEN [rel |-> rel8, branch |-> "SHORT"]
             ELSE IF canEncodeRel32(info) /\ rel32InRange(rel32)
                  THEN [rel |-> rel32, branch |-> "NEAR"]
                  ELSE [rel |-> 0, branch |-> "NONE"]

getTemporaryRel(mnemonic, hasCtx, va) ==
    LET kTempRel == IF mnemonic \in {"JCXZ", "JECXZ", "JKNZD"}
                    THEN kTemporaryRel8Value
                    ELSE kTemporaryRel32Value
    IN  IF hasCtx THEN va + kTempRel ELSE kTempRel

----------------------------------------------------------------------------
\* Operands (the Operand variant) and byte-level encoder operand slots.

NoneOp ==
    [kind |-> "None", id |-> "NONE", value |-> 0, label |-> InvalidLabel,
     base |-> "NONE", index |-> "NONE", scale |-> 0, size |-> 0, disp |-> 0,
     seg |-> "NONE"]

Reg(r) == [NoneOp EXCEPT !.kind = "Reg", !.id = r]

Imm(v) == [NoneOp EXCEPT !.kind = "Imm", !.value = v]

Label(l) == [NoneOp EXCEPT !.kind = "Label", !.label = l]

Mem(b, i, d, l, s) ==
    [NoneOp EXCEPT !.kind = "Mem", !.base = b, !.index = i, !.scale = 1,
                   !.size = 8, !.disp = d, !.label = l, !.seg = s]

\* A zero-initialised ZydisEncoderOperand.
DstUnused ==
    [type |-> "UNUSED", reg |-> "NONE", is4 |-> FALSE, imm |-> 0,
     base |-> "NONE", index |-> "NONE", scale |-> 0, size |-> 0, disp |-> 0]

\* req.operands[i].type of the zero-initialised request (i is 0-based).
dstType(st, i) ==
    IF i < Len(st.req.operands) THEN st.req.operands[i + 1].type ELSE "UNUSED"

\* state.operandIndex while operand slot Len+1 is being built.
operandIndex(st) == Len(st.req.operands)

\* dstOp is filled, then encode_ does req.operand_count++.
putOperand(st, dst) == [st EXCEPT !.req.operands = Append(@, dst)]

----------------------------------------------------------------------------
\* Operand builders.  st is the EncoderState plus the context fields the
\* builders write (st.ctx) and whether an assertion has failed (st.aborted).

\* Mutant: the external test of the memory arm inverted.
memLabelUnresolved_inverted(labelVA, externalLabel) ==
    ~labelVA.has /\ externalLabel

\* The else branch of the address lookup of the memory arm sets
\* needsExtraPass unless the label is external.
memLabelUnresolved(labelVA, externalLabel) == ~labelVA.has /\ ~externalLabel

\* Mutant: the flag is assigned the outcome of this lookup.
markExtraPass_assign(c, unresolved) == [c EXCEPT !.needsExtraPass = unresolved]

\* if (...) { ctx->needsExtraPass = true; }
markExtraPass(c, unresolved) ==
    IF unresolved THEN [c EXCEPT !.needsExtraPass = TRUE] ELSE c

\* Mutant: the first invocation never asks for a re-encode with the size.
hintRequiresSize_never(c, hasCtx) == c

\* if (ctx != nullptr && instrSize == 0) { ctx->instrSize = kHintRequiresSize; }
hintRequiresSize(c, hasCtx) ==
    IF hasCtx /\ c.instrSize = 0
    THEN [c EXCEPT !.instrSize = kHintRequiresSize]
    ELSE c

\* Mutant: the relocation is recorded for internal labels too.
ripRelocation_always(st, externalLabel, labelId) ==
    [st EXCEPT !.relocKind = "Rel32", !.relocData = "Memory",
               !.relocLabel = labelId]

\* The relocation a RIP-based memory operand records.
ripRelocation(st, externalLabel, labelId) ==
    IF externalLabel
    THEN [st EXCEPT !.relocKind = "Rel32", !.relocData = "Memory",
                    !.relocLabel = labelId]
    ELSE st

buildOperandReg(st, hasCtx, src) ==
    putOperand(st, [DstUnused EXCEPT !.type = "REGISTER", !.reg = src.id])

buildOperandLabel(st, hasCtx, src) ==
    LET tmp == getTemporaryRel(st.req.mnemonic, hasCtx, st.ctx.va)
        lookup == hasCtx /\ ~isLabelExternal(src.label)
        labelVA == IF lookup THEN getLabelAddress(src.label) ELSE NullOpt
        st1 == [st EXCEPT !.ctx = markExtraPass(@, lookup /\ ~labelVA.has)]
        encodeInfo == getEncodeVariantInfo(st.req.mnemonic)
        isTarget == operandIndex(st) = 0 /\ encodeInfo.isControlFlow
        targetAddress == IF labelVA.has THEN labelVA.val ELSE tmp
        r == processRelAddress(encodeInfo, hasCtx, st.ctx.va, targetAddress)
        immValue == IF isTarget THEN r.rel
                    ELSE IF labelVA.has THEN labelVA.val ELSE tmp
        st2 == IF isTarget
               THEN IF r.branch = "NONE"
                    THEN [st1 EXCEPT !.aborted = TRUE]
                    ELSE [st1 EXCEPT !.req.branch_type = r.branch]
               ELSE IF st.req.mnemonic = "MOV" /\ dstType(st, 0) = "REGISTER"
                    THEN [st1 EXCEPT !.relocKind = "Abs",
                                     !.relocData = "Immediate",
                                     !.relocLabel = src.label]
                    ELSE st1
    IN  putOperand(st2, [DstUnused EXCEPT !.type = "IMMEDIATE", !.imm = immValue])

buildOperandImm(st, hasCtx, src) ==
    LET encodeInfo == getEncodeVariantInfo(st.req.mnemonic)
        isTarget == operandIndex(st) = 0 /\ encodeInfo.isControlFlow
        r == processRelAddress(encodeInfo, hasCtx, st.ctx.va, src.value)
        immValue == IF isTarget THEN r.rel ELSE src.value
        st1 == IF isTarget
               THEN IF r.branch = "NONE"
                    THEN [st EXCEPT !.aborted = TRUE]
                    ELSE [st EXCEPT !.req.branch_type = r.branch]
               ELSE st
    IN  putOperand(st1, [DstUnused EXCEPT !.type = "IMMEDIATE", !.imm = immValue])

buildOperandMem(st, hasCtx, src) ==
    LET address == IF hasCtx THEN st.ctx.va ELSE 0
        usingLabel == src.label # InvalidLabel
        externalLabel == usingLabel /\ hasCtx /\ isLabelExternal(src.label)
        labelVA == IF usingLabel /\ hasCtx
                   THEN getLabelAddress(src.label) ELSE NullOpt
        disp1 == IF ~usingLabel THEN src.disp
                 ELSE IF labelVA.has THEN src.disp + labelVA.val
                 ELSE src.disp + kTemporaryRel32Value
        st1 == [st EXCEPT !.ctx =
                  markExtraPass(@, usingLabel /\ hasCtx
                                   /\ memLabelUnresolved(labelVA, externalLabel))]
        base == IF st.req.machine_mode = "LONG_64" /\ src.base = "NONE"
                   /\ src.index = "NONE" /\ usingLabel
                THEN "RIP" ELSE src.base
        isAbs == base = "NONE" /\ src.index = "NONE"
        isRip == ~isAbs /\ base = "RIP"
        instrSize == IF hasCtx THEN st.ctx.instrSize ELSE 0
        st2 == IF isAbs
               THEN [st1 EXCEPT !.relocKind = "Abs",
                                !.relocData = "Memory",
                                !.relocLabel =
                                    IF usingLabel THEN src.label ELSE @]
               ELSE IF isRip
               THEN ripRelocation(
                        [st1 EXCEPT !.ctx = hintRequiresSize(@, hasCtx)],
                        externalLabel, src.label)
               ELSE st1
        displacement == IF isRip THEN disp1 - (address + instrSize) ELSE disp1
        st3 == IF src.seg = "GS"
               THEN [st2 EXCEPT !.req.prefixes = @ \cup {"SEGMENT_GS"}]
               ELSE IF src.seg = "FS"
               THEN [st2 EXCEPT !.req.prefixes = @ \cup {"SEGMENT_FS"}]
               ELSE st2
    IN  putOperand(st3, [DstUnused EXCEPT !.type = "MEMORY", !.base = base,
                                          !.index = src.index,
                                          !.scale = src.scale,
                                          !.size = src.size,
                                          !.disp = displacement])

buildOperandNone(st, hasCtx, src) == putOperand(st, DstUnused)

buildOperand(st, hasCtx, src) ==
    CASE src.kind = "Reg" -> buildOperandReg(st, hasCtx, src)
      [] src.kind = "Label" -> buildOperandLabel(st, hasCtx, src)
      [] src.kind = "Imm" -> buildOperandImm(st, hasCtx, src)
      [] src.kind = "Mem" -> buildOperandMem(st, hasCtx, src)
      [] OTHER -> buildOperandNone(st, hasCtx, src)

----------------------------------------------------------------------------
\* The byte-level encoder (Zydis), as far as the core depends on it: whether
\* it accepts a request and the length it emits.  Branch lengths are those
\* the variant table records; memory operands are sized as x86 ModRM/SIB/disp.

FitsInt8(v) == -128 <= v /\ v <= 127

FitsInt32(v) == -Int32Max - 1 <= v /\ v <= Int32Max

RexLen(r) == IF r.machine_mode = "LONG_64" THEN 1 ELSE 0

PrefixLen(r) ==
    Cardinality(r.prefixes) + (IF r.operand_size_hint = "16" THEN 1 ELSE 0)

\* [ok, len]: ModRM + SIB + displacement bytes of a memory operand.
MemLen(r, op) ==
    LET sib == IF op.index # "NONE" THEN 1 ELSE 0
    IN  IF ~FitsInt32(op.disp) THEN [ok |-> FALSE, len |-> 0]
        ELSE IF op.base = "RIP"
        THEN IF r.machine_mode # "LONG_64" \/ op.index # "NONE"
             THEN [ok |-> FALSE, len |-> 0]
             ELSE [ok |-> TRUE,
                   len |-> 1 + (IF ripDisp8 /\ FitsInt8(op.disp) THEN 1 ELSE 4)]
        ELSE IF op.base = "NONE"
        THEN [ok |-> TRUE,
              len |-> 1 + 4 + (IF r.machine_mode = "LONG_64" THEN 1 ELSE sib)]
        ELSE [ok |-> TRUE,
              len |-> 1 + sib + (IF op.disp = 0 THEN 0
                                 ELSE IF FitsInt8(op.disp) THEN 1 ELSE 4)]

BranchLen(r) ==
    LET info == getEncodeVariantInfo(r.mnemonic)
        imm == r.operands[1].imm
        short == canEncodeRel8(info) /\ FitsInt8(imm)
        near == canEncodeRel32(info) /\ FitsInt32(imm)
    IN  CASE r.branch_type = "SHORT" ->
               [ok |-> short, len |-> info.encodeSizeRel8]
          [] r.branch_type = "NEAR" ->
               [ok |-> near, len |-> info.encodeSizeRel32]
          [] OTHER ->
               IF short THEN [ok |-> TRUE, len |-> info.encodeSizeRel8]
               ELSE [ok |-> near, len |-> info.encodeSizeRel32]

ZydisEncoderEncodeInstruction(r) ==
    LET ops == r.operands
        types == [i \in 1..Len(ops) |-> ops[i].type]
        m == r.mnemonic
        bad == [ok |-> FALSE, len |-> 0]
        withMem(fixed, k) ==
            LET ml == MemLen(r, ops[k])
            IN  IF ml.ok THEN [ok |-> TRUE, len |-> fixed + ml.len] ELSE bad
        body ==
            CASE getEncodeVariantInfo(m).isControlFlow /\ types = <<"IMMEDIATE">> ->
                   BranchLen(r)
              [] m = "MOV" /\ types = <<"REGISTER", "REGISTER">> ->
                   [ok |-> TRUE, len |-> 2 + RexLen(r)]
              [] m = "MOV" /\ types = <<"REGISTER", "IMMEDIATE">> ->
                   IF r.machine_mode # "LONG_64" THEN [ok |-> TRUE, len |-> 5]
                   ELSE IF FitsInt32(ops[2].imm) THEN [ok |-> TRUE, len |-> 7]
                   ELSE [ok |-> TRUE, len |-> 10]
              [] m \in {"MOV", "LEA"} /\ types = <<"REGISTER", "MEMORY">> ->
                   withMem(1 + RexLen(r), 2)
              [] m = "MOV" /\ types = <<"MEMORY", "REGISTER">> ->
                   withMem(1 + RexLen(r), 1)
              [] m = "MOV" /\ types = <<"MEMORY", "IMMEDIATE">> ->
                   IF FitsInt32(ops[2].imm) THEN withMem(5 + RexLen(r), 1)
                   ELSE bad
              [] m = "PUSH" /\ types = <<"IMMEDIATE">> ->
                   IF FitsInt8(ops[1].imm) THEN [ok |-> TRUE, len |-> 2]
                   ELSE IF FitsInt32(ops[1].imm) THEN [ok |-> TRUE, len |-> 5]
                   ELSE bad
              [] m = "PUSH" /\ types = <<"MEMORY">> -> withMem(1, 1)
              [] m = "VFMADDPD"
                 /\ types = <<"REGISTER", "REGISTER", "REGISTER", "MEMORY">> ->
                   IF ops[3].is4 THEN withMem(5, 4) ELSE bad
              [] m = "VFMADDPD"
                 /\ types = <<"REGISTER", "REGISTER", "MEMORY", "REGISTER">> ->
                   IF ops[4].is4 THEN withMem(5, 3) ELSE bad
              [] m = "VFMADDPD"
                 /\ types = <<"REGISTER", "REGISTER", "REGISTER", "REGISTER">> ->
                   [ok |-> ops[4].is4, len |-> 6]
              [] OTHER -> bad
    IN  IF body.ok THEN [ok |-> TRUE, len |-> body.len + PrefixLen(r)] ELSE bad

----------------------------------------------------------------------------
\* encode_.

PrefixAttribs ==
    {"Lock", "Rep", "Repe", "Repne", "Bnd", "Xacquire", "Xrelease"}

translateAttrib(a) ==
    CASE a = "Lock" -> "HAS_LOCK"
      [] a = "Rep" -> "HAS_REP"
      [] a = "Repe" -> "HAS_REPE"
      [] a = "Repne" -> "HAS_REPNE"
      [] a = "Bnd" -> "HAS_BND"
      [] a = "Xacquire" -> "HAS_XACQUIRE"
      [] a = "Xrelease" -> "HAS_XRELEASE"

getAttribs(attribs) == {translateAttrib(a) : a \in attribs \cap PrefixAttribs}

operandSizeHint(attribs) ==
    IF "OperandSize8" \in attribs THEN "8"
    ELSE IF "OperandSize16" \in attribs THEN "16"
    ELSE IF "OperandSize32" \in attribs THEN "32"
    ELSE IF "OperandSize64" \in attribs THEN "64"
    ELSE "NONE"

Is4Mnemonics ==
    {"VBLENDVPD", "VBLENDVPS", "VFMADDPD", "VFMADDPS", "VFMADDSD", "VFMADDSS",
     "VFMADDSUBPD", "VFMADDSUBPS", "VFMSUBADDPD", "VFMSUBADDPS", "VFMSUBPD",
     "VFMSUBPS", "VFMSUBSD", "VFMSUBSS", "VFNMADDPD", "VFNMADDPS", "VFNMADDSD",
     "VFNMADDSS", "VFNMSUBPD", "VPMACSSDD", "VPMACSSDQH", "VFNMSUBPS",
     "VFNMSUBSD", "VFNMSUBSS", "VPBLENDVB", "VPCMOV", "VPERMIL2PD",
     "VPERMIL2PS", "VPMACSDD", "VPMACSDQH", "VPMACSDQL", "VPMACSSDQL",
     "VPMACSSWW", "VPMACSSWD", "VPMACSWD", "VPMACSWW", "VPMADCSSWD",
     "VPMADCSWD", "VPPERM"}

\* req.operands[2] and [3] are slots 3 and 4 of the sequence.
fixupIs4Operands(r) ==
    LET opType2 == IF Len(r.operands) >= 3 THEN r.operands[3].type ELSE "UNUSED"
        opType3 == IF Len(r.operands) >= 4 THEN r.operands[4].type ELSE "UNUSED"
    IN  IF r.mnemonic \notin Is4Mnemonics THEN r
        ELSE IF opType2 = "REGISTER" /\ opType3 = "MEMORY"
        THEN [r EXCEPT !.operands[3].is4 = TRUE]
        ELSE IF (opType2 = "REGISTER" /\ opType3 = "REGISTER")
                \/ (opType2 = "MEMORY" /\ opType3 = "REGISTER")
        THEN [r EXCEPT !.operands[4].is4 = TRUE]
        ELSE r

EmptyReq ==
    [machine_mode |-> "LONG_64", mnemonic |-> "INVALID", prefixes |-> {},
     operand_size_hint |-> "NONE", branch_type |-> "NONE", operands |-> <<>>]

\* A default-constructed EncoderResult with length 0.
EmptyRes ==
    [length |-> 0, relocKind |-> "None", relocData |-> "None",
     relocLabel |-> InvalidLabel]

\* The operand loop of encode_; a failed assertion stops the process.
RECURSIVE buildOperands(_, _, _, _)
buildOperands(st, hasCtx, operands, numOperands) ==
    IF st.aborted \/ operandIndex(st) >= numOperands THEN st
    ELSE buildOperands(buildOperand(st, hasCtx, operands[operandIndex(st) + 1]),
                       hasCtx, operands, numOperands)

\* [aborted, ctx, req, err, res]
encode_(hasCtx, c, mode, attribs, mnemonic, operands) ==
    LET st0 == [ctx |-> c,
                req |-> [EmptyReq EXCEPT
                           !.machine_mode = IF mode = "AMD64" THEN "LONG_64"
                                            ELSE "LONG_COMPAT_32",
                           !.mnemonic = mnemonic,
                           !.prefixes = getAttribs(attribs),
                           !.operand_size_hint = operandSizeHint(attribs)],
                relocKind |-> "None", relocData |-> "None",
                relocLabel |-> InvalidLabel, aborted |-> FALSE]
        numOperands == Min(ZYDIS_ENCODER_MAX_OPERANDS, Len(operands))
        st == buildOperands(st0, hasCtx, operands, numOperands)
        r == fixupIs4Operands(st.req)
        status == ZydisEncoderEncodeInstruction(r)
    IN  IF st.aborted
        THEN [aborted |-> TRUE, ctx |-> st.ctx, req |-> st.req,
              err |-> "None", res |-> EmptyRes]
        ELSE IF ~status.ok
        THEN [aborted |-> FALSE, ctx |-> st.ctx, req |-> r,
              err |-> "ImpossibleInstruction", res |-> EmptyRes]
        ELSE [aborted |-> FALSE, ctx |-> st.ctx, req |-> r, err |-> "None",
              res |-> [length |-> status.len, relocKind |-> st.relocKind,
                       relocData |-> st.relocData,
                       relocLabel |-> st.relocLabel]]

----------------------------------------------------------------------------
\* Inputs the layout driver draws from.

LabelIds == {0, 1}

\* LabelFlags::External is fixed when a label is created.
ExternalLabels == {1}

VAs == {4096, 4112}

LabelAddrs(l) ==
    IF l \in ExternalLabels THEN {8192} ELSE {3986, 3987, 4225, 4226}

MemShapes ==
    {Mem(b, "NONE", 0, l, "NONE") :
        b \in {"NONE", "RAX", "RIP"}, l \in {InvalidLabel, 0, 1}}
    \cup {Mem(b, "NONE", 3, 0, "NONE") : b \in {"NONE", "RIP"}}
    \cup {Mem("NONE", "RCX", 0, 0, "NONE"),
          Mem("RAX", "RCX", 0, InvalidLabel, "NONE"),
          Mem("RIP", "NONE", 0, 0, "GS"),
          Mem("RAX", "NONE", 0, InvalidLabel, "FS")}

Instr(m, ops) == [attribs |-> {}, mnemonic |-> m, ops |-> ops]

ControlFlowInstructions ==
    {Instr(m, <<t>>) :
        m \in {"JMP", "JZ", "CALL"},
        t \in {Label(0), Label(1), Imm(4098), Imm(8192)}}
    \cup {Instr(m, <<Label(l)>>) : m \in ShortOnlyMnemonics, l \in {0, 1}}
    \cup {Instr("JCXZ", <<Imm(4098)>>), Instr("JCXZ", <<Imm(8192)>>),
          Instr("JMP", <<Label(2)>>), Instr("JMP", <<Reg("RAX"), Label(0)>>)}

OtherInstructions ==
    {Instr("MOV", <<Reg("RAX"), Label(l)>>) : l \in {0, 1, 2}}
    \cup {Instr("MOV", <<Reg("RAX"), Imm(5)>>),
          Instr("MOV", <<Label(0), Reg("RAX")>>),
          [attribs |-> {"Lock", "OperandSize16"}, mnemonic |-> "MOV",
           ops |-> <<Reg("RAX"), Reg("RCX")>>],
          [attribs |-> {"OperandSize32"}, mnemonic |-> "MOV",
           ops |-> <<Reg("RAX"), Reg("RCX")>>]}
    \cup {Instr("MOV", <<Reg("RAX"), m>>) : m \in MemShapes}
    \cup {Instr("MOV", <<Mem("NONE", "NONE", 0, l, "NONE"), Reg("RAX")>>) :
            l \in {0, 1}}
    \cup {Instr("MOV", <<Mem(b, "NONE", 0, 1, "NONE"), Label(0)>>) :
            b \in {"NONE", "RAX"}}
    \cup {Instr("LEA", <<Reg("RAX"), Mem("NONE", "NONE", 0, 1, "NONE")>>)}
    \cup {Instr("PUSH", <<Label(l)>>) : l \in {0, 1}}
    \cup {Instr("PUSH", <<Mem("RIP", "NONE", 0, l, "NONE")>>) : l \in {0, 1}}
    \cup {Instr("VFMADDPD", <<Reg("XMM0"), Reg("XMM1"), a, b>>) :
            a \in {Reg("XMM2"), Mem("RAX", "NONE", 0, InvalidLabel, "NONE")},
            b \in {Reg("XMM3"), Mem("RAX", "NONE", 0, InvalidLabel, "NONE")}}

\* Branches are encoded alike in both modes; the driver draws them in AMD64
\* and a few of them in I386.
Instructions(mode) ==
    IF mode = "AMD64" THEN ControlFlowInstructions \cup OtherInstructions
    ELSE OtherInstructions
         \cup {Instr(m, <<Label(l)>>) : m \in {"JMP", "LOOP"}, l \in {0, 1}}

Modes == {"I386", "AMD64"}

NoCall == [kind |-> "none", mode |-> "AMD64", attribs |-> {},
           mnemonic |-> "INVALID", ops |-> <<>>]

NoEntry == [instrSize |-> 0, needsExtraPass |-> FALSE]

----------------------------------------------------------------------------
\* State machine.

Init ==
    /\ labels = [l \in LabelIds |->
                   [addr |-> NullOpt, external |-> l \in ExternalLabels]]
    /\ ctx = [va |-> 4096, instrSize |-> 0, needsExtraPass |-> FALSE]
    /\ ripDisp8 \in BOOLEAN
    /\ pc = "idle"
    /\ call = NoCall
    /\ req = EmptyReq
    /\ res = EmptyRes
    /\ entry = NoEntry
    /\ reencodes = 0
    /\ tried = {}

\* Mutant: the length of the re-encode is not compared with the size used.
afterEncode_noRecheck(r, first, size) ==
    IF r.aborted THEN [pc |-> "aborted", ctx |-> r.ctx]
    ELSE IF r.err # "None" THEN [pc |-> "failed", ctx |-> r.ctx]
    ELSE [pc |-> IF r.ctx.instrSize = kHintRequiresSize THEN "loop" ELSE "done",
          ctx |-> r.ctx]

\* Where encodeWithContext stands after an encode_ invocation returned r,
\* ctx.instrSize having been `size` when it was invoked (0 on entry).
afterEncode(r, first, size) ==
    IF r.aborted THEN [pc |-> "aborted", ctx |-> r.ctx]
    ELSE IF r.err # "None" THEN [pc |-> "failed", ctx |-> r.ctx]
    ELSE LET c == IF ~first /\ r.res.length # r.ctx.instrSize
                  THEN [r.ctx EXCEPT !.instrSize = kHintRequiresSize]
                  ELSE r.ctx
         IN  [pc |-> IF c.instrSize = kHintRequiresSize THEN "loop" ELSE "done",
              ctx |-> c]

\* Mutant: the size left by the previous call is kept.
resetInstrSize_keep(c) == c

\* ctx.instrSize = 0 on entry of encodeWithContext.
resetInstrSize(c) == [c EXCEPT !.instrSize = 0]

\* encodeWithContext up to the first test of the while condition.
encodeWithContext(mode, instr) ==
    /\ pc = "idle"
    /\ LET c0 == resetInstrSize(ctx)
           r == encode_(TRUE, c0, mode, instr.attribs, instr.mnemonic, instr.ops)
           n == afterEncode(r, TRUE, 0)
       IN  /\ pc' = n.pc
           /\ ctx' = n.ctx
           /\ req' = r.req
           /\ res' = r.res
    /\ call' = [kind |-> "ctx", mode |-> mode, attribs |-> instr.attribs,
                mnemonic |-> instr.mnemonic, ops |-> instr.ops]
    /\ entry' = [instrSize |-> ctx.instrSize,
                 needsExtraPass |-> ctx.needsExtraPass]
    /\ reencodes' = 0
    /\ tried' = {}
    /\ UNCHANGED <<labels, ripDisp8>>

\* One iteration of the while loop of encodeWithContext.
Reencode ==
    /\ pc = "loop"
    /\ ctx.instrSize = kHintRequiresSize
    /\ LET c0 == [ctx EXCEPT !.instrSize = res.length]
           r == encode_(TRUE, c0, call.mode, call.attribs, call.mnemonic, call.ops)
           n == afterEncode(r, FALSE, res.length)
       IN  /\ pc' = n.pc
           /\ ctx' = n.ctx
           /\ req' = r.req
           /\ res' = r.res
    /\ reencodes' = Min(reencodes + 1, MaxReencodes)
    /\ tried' = tried \cup {res.length}
    /\ UNCHANGED <<labels, ripDisp8, call, entry>>

\* The context-free encode().
encode(mode, instr) ==
    /\ pc = "idle"
    /\ LET r == encode_(FALSE, ctx, mode, instr.attribs, instr.mnemonic, instr.ops)
       IN  /\ pc' = IF r.aborted THEN "aborted"
                    ELSE IF r.err # "None" THEN "failed" ELSE "done"
           /\ req' = r.req
           /\ res' = r.res
    /\ call' = [kind |-> "free", mode |-> mode, attribs |-> instr.attribs,
                mnemonic |-> instr.mnemonic, ops |-> instr.ops]
    /\ entry' = [instrSize |-> ctx.instrSize,
                 needsExtraPass |-> ctx.needsExtraPass]
    /\ reencodes' = 0
    /\ tried' = {}
    /\ UNCHANGED <<labels, ctx, ripDisp8>>

\* The caller takes the result (or the error) of the call.
Return ==
    /\ pc \in {"done", "failed"}
    /\ pc' = "idle"
    /\ call' = NoCall
    /\ req' = EmptyReq
    /\ res' = EmptyRes
    /\ entry' = NoEntry
    /\ reencodes' = 0
    /\ tried' = {}
    /\ UNCHANGED <<labels, ctx, ripDisp8>>

\* Layout driver, between encode calls.
PlaceLabel(l, a) ==
    /\ pc = "idle"
    /\ labels[l].addr # Some(a)
    /\ labels' = [labels EXCEPT ![l].addr = Some(a)]
    /\ UNCHANGED <<ctx, ripDisp8, pc, call, req, res, entry, reencodes, tried>>

SetVA(v) ==
    /\ pc = "idle"
    /\ ctx.va # v
    /\ ctx' = [ctx EXCEPT !.va = v]
    /\ UNCHANGED <<labels, ripDisp8, pc, call, req, res, entry, reencodes, tried>>

ResetPass ==
    /\ pc = "idle"
    /\ ctx.needsExtraPass
    /\ ctx' = [ctx EXCEPT !.needsExtraPass = FALSE]
    /\ UNCHANGED <<labels, ripDisp8, pc, call, req, res, entry, reencodes, tried>>

Next ==
    \/ \E mode \in Modes : \E instr \in Instructions(mode) :
          encodeWithContext(mode, instr)
    \/ Reencode
    \/ \E mode \in Modes : \E instr \in Instructions(mode) : encode(mode, instr)
    \/ Return
    \/ \E l \in LabelIds : \E a \in LabelAddrs(l) : PlaceLabel(l, a)
    \/ \E v \in VAs : SetVA(v)
    \/ ResetPass

Spec == Init /\ [][Next]_vars

----------------------------------------------------------------------------
\* Properties.

Returned == pc \in {"done", "failed"}

CtxCall == call.kind = "ctx"

FreeCall == call.kind = "free"

\* Operands encode_ visits.
Visited == 1..Min(ZYDIS_ENCODER_MAX_OPERANDS, Len(call.ops))

HasBothVariants(m) ==
    canEncodeRel8(getEncodeVariantInfo(m)) /\ canEncodeRel32(getEncodeVariantInfo(m))

\* A control-flow target the encoder resolves: an immediate address, or a
\* non-external label that has an address.
ResolvedTarget(op) ==
    \/ op.kind = "Imm"
    \/ op.kind = "Label" /\ ~isLabelExternal(op.label)
       /\ getLabelAddress(op.label).has

TargetOf(op) ==
    IF op.kind = "Imm" THEN op.value ELSE getLabelAddress(op.label).val

\* A reference to a non-external label that has no address.
UnresolvedRef(op) ==
    /\ op.kind \in {"Label", "Mem"}
    /\ op.label # InvalidLabel
    /\ ~isLabelExternal(op.label)
    /\ ~getLabelAddress(op.label).has

C1_Case ==
    /\ CtxCall
    /\ Returned
    /\ HasBothVariants(call.mnemonic)
    /\ Len(call.ops) = 1
    /\ ResolvedTarget(call.ops[1])

\* C1: a context-driven JMP/Jcc whose operand 0 is a resolved target is handed
\* to the byte-level encoder as SHORT with displacement target - (va + rel8Size)
\* exactly when that displacement has magnitude at most 127, and then has
\* length rel8Size; otherwise as NEAR with target - (va + rel32Size), of length
\* rel32Size, when that has magnitude at most INT32_MAX.
C1_ShortPreference ==
    C1_Case =>
        LET info == getEncodeVariantInfo(call.mnemonic)
            t == TargetOf(call.ops[1])
            d8 == t - (ctx.va + info.encodeSizeRel8)
            d32 == t - (ctx.va + info.encodeSizeRel32)
        IN  IF -127 <= d8 /\ d8 <= 127
            THEN /\ req.branch_type = "SHORT"
                 /\ req.operands[1].imm = d8
                 /\ pc = "done"
                 /\ res.length = info.encodeSizeRel8
            ELSE (-2147483647 <= d32 /\ d32 <= 2147483647) =>
                 /\ req.branch_type = "NEAR"
                 /\ req.operands[1].imm = d32
                 /\ pc = "done"
                 /\ res.length = info.encodeSizeRel32

\* A Jcc whose rel8 displacement would be -128 was encoded NEAR in 6 bytes.
C1_Witness ==
    /\ C1_Case
    /\ call.mnemonic = "JZ"
    /\ call.ops[1].kind = "Label"
    /\ TargetOf(call.ops[1]) - (ctx.va + 2) = -128
    /\ req.branch_type = "NEAR"
    /\ res.length = 6

C2_Case ==
    /\ CtxCall
    /\ pc # "idle"
    /\ getEncodeVariantInfo(call.mnemonic).isControlFlow
    /\ Len(call.ops) = 1
    /\ call.ops[1].kind = "Label"
    /\ UnresolvedRef(call.ops[1])

\* C2: a context-driven encode of any control-flow mnemonic whose operand 0 is
\* a non-external label without an address never fails the resolver's
\* assertion; it sets needsExtraPass, hands the byte-level encoder a SHORT or
\* NEAR hint, and succeeds whenever the byte-level encoder accepts the request.
C2_UnresolvedLabelsDoNotFail ==
    C2_Case =>
        /\ pc # "aborted"
        /\ ctx.needsExtraPass
        /\ req.branch_type \in {"SHORT", "NEAR"}
        /\ ZydisEncoderEncodeInstruction(req).ok => pc = "done"

C3_Case ==
    /\ CtxCall
    /\ Returned
    /\ \E i \in Visited : UnresolvedRef(call.ops[i])

\* C3: when a context-driven encode call returns and some operand it visited
\* refers to a non-external label that has no address, ctx.needsExtraPass is
\* true.
C3_ExtraPassSignal == C3_Case => ctx.needsExtraPass

\* The call itself raised the flag, on a RIP-relative operand that was
\* re-encoded.
C3_Witness ==
    /\ C3_Case
    /\ pc = "done"
    /\ ~entry.needsExtraPass
    /\ reencodes >= 1
    /\ \E i \in Visited : call.ops[i].kind = "Mem" /\ UnresolvedRef(call.ops[i])

\* A reference to a label flagged External.
ExternalRef(op) ==
    /\ op.kind \in {"Label", "Mem"}
    /\ op.label # InvalidLabel
    /\ isLabelExternal(op.label)

NoReloc ==
    /\ res.relocKind = "None"
    /\ res.relocData = "None"
    /\ res.relocLabel = InvalidLabel

Reloc(kind, data, labelId) ==
    /\ res.relocKind = kind
    /\ res.relocData = data
    /\ res.relocLabel = labelId

\* C4: in a context-driven encode a reference to an External label (a Label
\* operand at any index on any mnemonic, or the label of a Mem operand) never
\* sets ctx.needsExtraPass, and a successful result carries a relocation
\* descriptor naming that label.
C4_ExternalLabels ==
    \A i \in Visited :
        (CtxCall /\ Returned /\ ExternalRef(call.ops[i])) =>
            /\ (\A j \in Visited : ~UnresolvedRef(call.ops[j]))
                   => ctx.needsExtraPass = entry.needsExtraPass
            /\ pc = "done"
                   => res.relocKind # "None" /\ res.relocLabel = call.ops[i].label

\* The half of C4 the code keeps: an External reference alone never raises
\* needsExtraPass.
C4_NoExtraPass ==
    (CtxCall /\ Returned /\ \A j \in Visited : ~UnresolvedRef(call.ops[j]))
        => ctx.needsExtraPass = entry.needsExtraPass

\* A memory operand whose base is RIP once the builder has run: an explicit
\* RIP base, or [label] without base and index in AMD64 mode.
RipBased(op, mode) ==
    /\ op.kind = "Mem"
    /\ \/ op.base = "RIP"
       \/ mode = "AMD64" /\ op.base = "NONE" /\ op.index = "NONE"
          /\ op.label # InvalidLabel

\* A memory operand left without base and index.
AbsMem(op, mode) ==
    /\ op.kind = "Mem"
    /\ op.base = "NONE"
    /\ op.index = "NONE"
    /\ ~RipBased(op, mode)

\* C5 as stated: the context-driven encoder returns successfully only with
\* ctx.instrSize a concrete size (neither 0 nor REQUIRES_SIZE) equal to
\* res.length.
C5_ConcreteSizeOnSuccess ==
    (CtxCall /\ pc = "done") =>
        /\ ctx.instrSize \notin {0, kHintRequiresSize}
        /\ ctx.instrSize = res.length

\* C5 amended: on a successful return ctx.instrSize equals res.length, a
\* concrete size, when the instruction has a RIP-relative memory operand, and
\* is 0 (never the sentinel) when it has none.
C5_SizeConvergence ==
    (CtxCall /\ pc = "done") =>
        IF \E i \in Visited : RipBased(call.ops[i], call.mode)
        THEN ctx.instrSize = res.length /\ res.length >= 1
        ELSE ctx.instrSize = 0

\* A RIP-relative instruction, re-encoded with its own length.
C5_Witness ==
    /\ CtxCall
    /\ pc = "done"
    /\ \E i \in Visited : RipBased(call.ops[i], call.mode)
    /\ reencodes >= 1
    /\ ctx.instrSize = res.length

C6_FixedDispTerminates ==
    (~ripDisp8) => (reencodes <= 1 /\ (pc = "loop" => reencodes = 0))

MovRegLabel ==
    /\ call.mnemonic = "MOV"
    /\ Len(call.ops) = 2
    /\ call.ops[1].kind = "Reg"
    /\ call.ops[2].kind = "Label"

\* Operands that record no relocation: registers, immediates, the label that
\* is a control-flow target, and RIP-based memory with an internal label.
PlainOperand(i) ==
    LET op == call.ops[i]
    IN  \/ op.kind \in {"None", "Reg", "Imm"}
        \/ op.kind = "Label" /\ i = 1
           /\ getEncodeVariantInfo(call.mnemonic).isControlFlow
        \/ RipBased(op, call.mode) /\ op.label # InvalidLabel
           /\ ~isLabelExternal(op.label)

\* C7: in every successful result relocKind # None implies relocData # None;
\* MOV reg, label yields Abs/Immediate/label; a Mem operand without base and
\* index after RIP promotion yields Abs/Memory/its label (Invalid if none); a
\* context-driven RIP-based Mem operand with an external label yields
\* Rel32/Memory/label; RIP-based Mem with an internal label, and register,
\* immediate and control-flow operands, leave None/None/Invalid.
C7_RelocationCoherence ==
    pc = "done" =>
        /\ res.relocKind # "None" => res.relocData # "None"
        /\ MovRegLabel => Reloc("Abs", "Immediate", call.ops[2].label)
        /\ \A i \in Visited :
              /\ AbsMem(call.ops[i], call.mode)
                    => Reloc("Abs", "Memory", call.ops[i].label)
              /\ (CtxCall /\ RipBased(call.ops[i], call.mode)
                    /\ ExternalRef(call.ops[i]))
                    => Reloc("Rel32", "Memory", call.ops[i].label)
        /\ (\A i \in Visited : PlainOperand(i)) => NoReloc

\* [label] promoted to RIP in AMD64 mode, label external: Rel32/Memory.
C7_Witness ==
    /\ pc = "done"
    /\ CtxCall
    /\ call.mode = "AMD64"
    /\ \E i \in Visited :
          /\ call.ops[i].kind = "Mem"
          /\ call.ops[i].base = "NONE"
          /\ ExternalRef(call.ops[i])
          /\ Reloc("Rel32", "Memory", call.ops[i].label)

\* C8: a context-free encode of a control-flow instruction whose operand 0 is
\* a label hands the byte-level encoder NEAR with the placeholder 0x123456
\* when the mnemonic has a rel32 variant, and SHORT with the placeholder 0x44
\* when it is short-only.
C8_ContextFreeSafety ==
    (FreeCall /\ Returned /\ getEncodeVariantInfo(call.mnemonic).isControlFlow
       /\ Len(call.ops) = 1 /\ call.ops[1].kind = "Label") =>
        IF canEncodeRel32(getEncodeVariantInfo(call.mnemonic))
        THEN req.branch_type = "NEAR" /\ req.operands[1].imm = 1193046
        ELSE req.branch_type = "SHORT" /\ req.operands[1].imm = 68

\* The half of C8 the code keeps: NEAR with 0x123456, for every mnemonic.
C8_AlwaysNear ==
    (FreeCall /\ Returned /\ getEncodeVariantInfo(call.mnemonic).isControlFlow
       /\ Len(call.ops) = 1 /\ call.ops[1].kind = "Label") =>
        req.branch_type = "NEAR" /\ req.operands[1].imm = 1193046

\* C9: no step of an encode call (successful or returning
\* ImpossibleInstruction) changes ctx.va or takes ctx.needsExtraPass from true
\* to false; only the driver, between calls, does.
C9_ContextFrame ==
    [][(pc # "idle" \/ pc' # "idle") =>
          /\ ctx'.va = ctx.va
          /\ ctx.needsExtraPass => ctx'.needsExtraPass]_vars

\* A call that found the flag set, resolved every label it referred to, and
\* returned with the flag still set.
C9_Witness ==
    /\ CtxCall
    /\ Returned
    /\ entry.needsExtraPass
    /\ ctx.needsExtraPass
    /\ \E i \in Visited : call.ops[i].kind = "Label"
    /\ \A i \in Visited : ~UnresolvedRef(call.ops[i])

\* encodeWithContext run to completion on context c: [pc, req, res], pc being
\* "loop" when `fuel` re-encodes did not settle the size.
RECURSIVE runLoop(_, _, _, _)
runLoop(c, r, n, fuel) ==
    IF n.pc # "loop" THEN [pc |-> n.pc, req |-> r.req, res |-> r.res]
    ELSE IF fuel = 0 THEN [pc |-> "loop", req |-> r.req, res |-> r.res]
    ELSE LET size == r.res.length
             r2 == encode_(TRUE, [n.ctx EXCEPT !.instrSize = size], call.mode,
                           call.attribs, call.mnemonic, call.ops)
         IN  runLoop(c, r2, afterEncode(r2, FALSE, size), fuel - 1)

\* The call in `call` made on a context that no earlier call has touched.
OnFreshContext ==
    LET c == [va |-> ctx.va, instrSize |-> 0, needsExtraPass |-> FALSE]
        r == encode_(TRUE, c, call.mode, call.attribs, call.mnemonic, call.ops)
    IN  runLoop(c, r, afterEncode(r, TRUE, 0), MaxReencodes + 1)

\* C10: the outcome of a context-driven encode (the request handed to the
\* byte-level encoder, the length, the relocation descriptor, success or
\* error) is the one the same inputs give on a fresh context, whatever
\* ctx.instrSize and ctx.needsExtraPass earlier calls left behind; a
\* context-free encode gives what encode_ gives without any context.
C10_Determinism ==
    /\ (CtxCall /\ Returned) =>
          [pc |-> pc, req |-> req, res |-> res] = OnFreshContext
    /\ (FreeCall /\ Returned) =>
          LET r == encode_(FALSE, [va |-> 0, instrSize |-> 0,
                                   needsExtraPass |-> FALSE],
                           call.mode, call.attribs, call.mnemonic, call.ops)
          IN  req = r.req /\ res = r.res

\* A RIP-relative instruction encoded on a context in which a failed call had
\* left the REQUIRES_SIZE sentinel.
C10_Witness ==
    /\ CtxCall
    /\ pc = "done"
    /\ entry.instrSize = kHintRequiresSize
    /\ reencodes >= 1
    /\ \E i \in Visited : RipBased(call.ops[i], call.mode)

----------------------------------------------------------------------------
\* Smallest viable branch encoding.

\* A context-driven encode of a mnemonic with a rel8 variant whose only operand
\* is a resolved target has passed through the relative-address resolver.
C11_Case ==
    /\ CtxCall
    /\ pc # "idle"
    /\ canEncodeRel8(getEncodeVariantInfo(call.mnemonic))
    /\ Len(call.ops) = 1
    /\ ResolvedTarget(call.ops[1])

\* C11: with a context, for a mnemonic with a rel8 variant, the resolver
\* returns SHORT with displacement target - (va + rel8Size) whenever that
\* displacement lies in -128..127, and something other than SHORT only when it
\* does not.
C11_SmallestViable ==
    C11_Case =>
        LET info == getEncodeVariantInfo(call.mnemonic)
            d8 == TargetOf(call.ops[1]) - (ctx.va + info.encodeSizeRel8)
        IN  IF -128 <= d8 /\ d8 <= 127
            THEN /\ pc # "aborted"
                 /\ req.branch_type = "SHORT"
                 /\ req.operands[1].imm = d8
            ELSE req.branch_type # "SHORT"

Magnitude(d) == IF d < 0 THEN 0 - d ELSE d

DeltasAroundRel8Limit == {-129, -128, -127, -1, 0, 1, 127, 128, 129}

\* The monotone half of C11 on its own: for every mnemonic with both variants
\* and any two rel8 displacements around the 8-bit limit, if the smaller
\* magnitude is resolved NEAR then the larger one is not resolved SHORT.
C11_MonotoneInMagnitude ==
    \A m \in {"JMP", "JZ"} : \A d1 \in DeltasAroundRel8Limit :
        \A d2 \in DeltasAroundRel8Limit :
            LET info == getEncodeVariantInfo(m)
                r1 == processRelAddress(info, TRUE, ctx.va,
                                        ctx.va + info.encodeSizeRel8 + d1)
                r2 == processRelAddress(info, TRUE, ctx.va,
                                        ctx.va + info.encodeSizeRel8 + d2)
            IN  (Magnitude(d1) <= Magnitude(d2) /\ r1.branch = "NEAR")
                    => r2.branch # "SHORT"

----------------------------------------------------------------------------
\* RIP-relative displacement.

\* What a memory operand's displacement addresses: the source displacement
\* plus the label's address, or plus the rel32 placeholder when the label has
\* no address.
RipTarget(op) ==
    op.disp + (IF op.label = InvalidLabel THEN 0
               ELSE IF getLabelAddress(op.label).has
                    THEN getLabelAddress(op.label).val
                    ELSE kTemporaryRel32Value)

\* A context-driven encode of an instruction with exactly one RIP-based memory
\* operand has returned successfully.
C12_Case ==
    /\ CtxCall
    /\ pc = "done"
    /\ Cardinality({i \in Visited : RipBased(call.ops[i], call.mode)}) = 1

\* C12: when a context-driven encode of an instruction with one RIP-based
\* memory operand returns successfully, the displacement handed to the
\* byte-level encoder in the final invocation is T - (ctx.va + res.length),
\* measured from the end of the instruction as finally sized.
C12_RipDisplacement ==
    C12_Case =>
        \A i \in Visited :
            RipBased(call.ops[i], call.mode) =>
                /\ req.operands[i].type = "MEMORY"
                /\ req.operands[i].base = "RIP"
                /\ req.operands[i].disp =
                       RipTarget(call.ops[i]) - (ctx.va + res.length)

\* [label + 3] promoted to RIP, the label placed, encoded in 7 bytes after a
\* re-encode: the displacement is 7 less than the one of the first invocation.
C12_Witness ==
    /\ C12_Case
    /\ reencodes >= 1
    /\ res.length = 7
    /\ \E i \in Visited :
          /\ RipBased(call.ops[i], call.mode)
          /\ call.ops[i].base = "NONE"
          /\ call.ops[i].disp = 3
          /\ getLabelAddress(call.ops[i].label).has
          /\ req.operands[i].disp = RipTarget(call.ops[i]) - ctx.va - 7


============================================================================
